---------------------------- MODULE Spec2Model ----------------------------
(***************************************************************************)
(* The tracked-allocation facility of uFTP (library/dynamicMemory.c): a    *)
(* doubly-linked list of metadata records per session, one process-wide    *)
(* byte counter behind memoryCountMutex, and one process-wide              *)
(* memoryListMutex serialising every list traversal and update.            *)
(*                                                                         *)
(* Several threads call the public functions concurrently.  Each function  *)
(* is cut into steps at the points where another thread can observe or     *)
(* change shared state: a critical section is entered in one step (the     *)
(* pthread_mutex_lock together with the statements up to the first shared  *)
(* write) and left in another (the remaining statements together with the  *)
(* pthread_mutex_unlock).                                                  *)
(*                                                                         *)
(* The C library heap is part of the state: which payload addresses and    *)
(* which metadata records are currently allocated.  calloc and realloc     *)
(* may return any address that is not allocated, or fail.  Undefined       *)
(* behaviour (free or realloc of a released address, a read of a released  *)
(* record) is a choice between the process aborting and the run going on.  *)
(***************************************************************************)
EXTENDS Integers, FiniteSets, Sequences

\* ------------------------------------------------------------- bounds --
NumAddr     == 2    \* payload addresses the heap can hand out
NumNodes    == 2    \* metadata records the heap can hand out
MaxBytes    == 1    \* largest size requested; 0 is requested too
MaxCalls    == 2    \* calls made into the module in a short run
CounterBits == 10   \* width of theTotalMemory in the model (64 in the build)

\* sizeof(DYNMEM_MemoryTable_DataType): the header is not among the sources;
\* any positive value gives the same behaviours.
MetaSize == 56

CounterModulus == 2 ^ CounterBits

NULL     == 0
NoThread == "nobody"
Threads  == {"T1", "T2"}
Lists    == {"A", "B"}
Addr     == 1..NumAddr
Node     == 1..NumNodes
Sizes    == 0..MaxBytes

VARIABLES
    theTotalMemory,     \* static unsigned long long theTotalMemory
    initialized,        \* static int initialized of DYNMEM_Init
    memoryCountMutex,   \* holder of memoryCountMutex, or NoThread
    memoryListMutex,    \* holder of memoryListMutex, or NoThread
    memoryListHead,     \* the callers' list head pointers, one per list
    table,              \* contents of the metadata records
    heapMem,            \* payload address -> currently allocated
    heapNode,           \* metadata record -> currently allocated
    frame,              \* per thread: position and local variables
    crashed,            \* the process was aborted by undefined behaviour
    allocSeen,          \* history: DYNMEM_malloc has been called
    lateInit,           \* history: DYNMEM_Init first ran after a DYNMEM_malloc
    netRequested,       \* history: sum of the deltas asked of the counter
    returned,           \* history: the pointers handed back to callers
    callsLeft           \* calls the run may still make into the module

vars == <<theTotalMemory, initialized, memoryCountMutex, memoryListMutex,
          memoryListHead, table, heapMem, heapNode, frame, crashed,
          allocSeen, lateInit, netRequested, returned, callsLeft>>

heapVars == <<heapMem, heapNode>>
listVars == <<memoryListHead, table>>
histVars == <<allocSeen, lateInit, netRequested, returned>>

\* ------------------------------------------------------------ helpers --

\* unsigned long long arithmetic
Wrap(x) == (x + CounterModulus) % CounterModulus

\* a record as calloc leaves it (and as the model keeps a released one)
BlankItem == [address |-> NULL, size |-> 0,
              nextElement |-> NULL, previousElement |-> NULL]

\* the locals of a thread that is in no call
IdleFrame == [pc |-> "idle", op |-> "none", list |-> "none", address |-> NULL,
              bytes |-> 0, item |-> NULL, theSize |-> 0, dir |-> "none",
              tmp |-> 0]

FreeAddr == {a \in Addr : ~heapMem[a]}
FreeNode == {n \in Node : ~heapNode[n]}

\* a lock that never makes its caller wait
CountMutexNeverWaits == TRUE
\* pthread_mutex_lock returns only when the mutex is not held
CountMutexFree == memoryCountMutex = NoThread

ListMutexFree == memoryListMutex = NoThread

\* for (temp = *memoryListHead; temp != NULL; temp = temp->nextElement)
\*     if (temp->address == theMemoryAddress) { found = temp; break; }
RECURSIVE Search(_, _, _)
Search(temp, theAddress, fuel) ==
    IF temp = NULL \/ fuel = 0 THEN NULL
    ELSE IF table[temp].address = theAddress THEN temp
    ELSE Search(table[temp].nextElement, theAddress, fuel - 1)

\* the records reachable from a head, in order
RECURSIVE Chain(_, _)
Chain(n, fuel) ==
    IF n = NULL \/ fuel = 0 THEN <<>>
    ELSE <<n>> \o Chain(table[n].nextElement, fuel - 1)

ChainOf(l) == Chain(memoryListHead[l], NumNodes + 1)
NodesOf(l) == {ChainOf(l)[i] : i \in 1..Len(ChainOf(l))}

\* a call is entered by a thread that is in none
Enter(t) ==
    /\ ~crashed
    /\ frame[t].pc = "idle"
    /\ callsLeft > 0
    /\ callsLeft' = callsLeft - 1

\* a call is continued by the thread that is at position pc of it
At(t, pc) == ~crashed /\ frame[t].pc = pc /\ UNCHANGED callsLeft

Return(t) == frame' = [frame EXCEPT ![t] = IdleFrame]

Crash == /\ crashed' = TRUE
         /\ UNCHANGED <<theTotalMemory, initialized, memoryCountMutex,
                        memoryListMutex, listVars, heapVars, frame, histVars>>

\* ---------------------------------------------------------------- Init --

\* the static initialisers of lines 20 to 38, empty lists, an empty heap,
\* and a run of at most budget calls
InitWith(budget) ==
    /\ theTotalMemory = 0
    /\ initialized = FALSE
    /\ memoryCountMutex = NoThread
    /\ memoryListMutex = NoThread
    /\ memoryListHead = [l \in Lists |-> NULL]
    /\ table = [n \in Node |-> BlankItem]
    /\ heapMem = [a \in Addr |-> FALSE]
    /\ heapNode = [n \in Node |-> FALSE]
    /\ frame = [t \in Threads |-> IdleFrame]
    /\ crashed = FALSE
    /\ allocSeen = FALSE
    /\ lateInit = FALSE
    /\ netRequested = 0
    /\ returned = {}
    /\ callsLeft = budget

Init == InitWith(MaxCalls)
DeepInit == InitWith(MaxCalls + 2)
FairInit == InitWith(MaxCalls + 1)

\* --------------------------------------------------------- DYNMEM_Init --

DYNMEM_Init(t) ==
    /\ Enter(t)
    /\ IF initialized
       THEN UNCHANGED <<theTotalMemory, initialized, lateInit>>
       ELSE /\ theTotalMemory' = 0
            /\ initialized' = TRUE
            /\ lateInit' = allocSeen
    /\ UNCHANGED <<memoryCountMutex, memoryListMutex, listVars, heapVars,
                   frame, crashed, allocSeen, netRequested, returned>>

\* ------------------------------------- the counter: lines 52 to 77 -----

\* the call of DYNMEM_IncreaseMemoryCounter / DYNMEM_DecreaseMemoryCounter
\* made by thread t from inside operation f.op
CallCounter(f, dir, theSize) ==
    [f EXCEPT !.pc = "count_lock", !.dir = dir, !.theSize = theSize]

Delta(dir, theSize) == IF dir = "inc" THEN theSize ELSE 0 - theSize

\* pthread_mutex_lock(&memoryCountMutex) and the load of theTotalMemory
CounterLock(t) ==
    /\ At(t, "count_lock")
    /\ CountMutexFree
    /\ memoryCountMutex' = t
    /\ frame' = [frame EXCEPT ![t].pc = "count_store",
                              ![t].tmp = theTotalMemory]
    /\ UNCHANGED <<theTotalMemory, initialized, memoryListMutex, listVars,
                   heapVars, crashed, histVars>>

\* theTotalMemory += theSize  (or -= theSize): the store
CounterStore(t) ==
    /\ At(t, "count_store")
    /\ LET v == Wrap(frame[t].tmp + Delta(frame[t].dir, frame[t].theSize))
       IN /\ theTotalMemory' = v
          /\ frame' = [frame EXCEPT ![t].pc = "count_ret", ![t].tmp = v]
    /\ UNCHANGED <<initialized, memoryCountMutex, memoryListMutex, listVars,
                   heapVars, crashed, histVars>>

\* ret = theTotalMemory; pthread_mutex_unlock; return ret.  The caller then
\* goes on: DYNMEM_free releases the block, every other caller returns, and
\* DYNMEM_malloc and DYNMEM_realloc hand their pointer to the caller.
CounterRet(t) ==
    /\ At(t, "count_ret")
    /\ memoryCountMutex' = NoThread
    /\ IF frame[t].op = "free"
       THEN frame' = [frame EXCEPT ![t].pc = "free_release",
                                   ![t].tmp = 0, ![t].dir = "none",
                                   ![t].theSize = 0]
       ELSE Return(t)
    /\ returned' = IF frame[t].op \in {"malloc", "realloc"}
                   THEN returned \cup {frame[t].address}
                   ELSE returned
    /\ UNCHANGED <<theTotalMemory, initialized, memoryListMutex, listVars,
                   heapVars, crashed, allocSeen, lateInit, netRequested>>

\* ------------------------------------------------------- DYNMEM_malloc --

\* memory = calloc(bytes, 1); the call is made from DYNMEM_malloc itself or
\* from DYNMEM_realloc with a NULL address
MallocBegin(t, bytes, l) ==
    /\ allocSeen' = TRUE
    /\ \/ \* calloc fails: report_error_q, return NULL
          /\ UNCHANGED <<frame, heapMem>>
       \/ \E a \in FreeAddr :
            /\ heapMem' = [heapMem EXCEPT ![a] = TRUE]
            /\ frame' = [frame EXCEPT ![t] =
                   [IdleFrame EXCEPT !.pc = "malloc_item", !.op = "malloc",
                                     !.list = l, !.bytes = bytes,
                                     !.address = a]]
    /\ UNCHANGED <<theTotalMemory, initialized, memoryCountMutex,
                   memoryListMutex, listVars, heapNode, crashed, lateInit,
                   netRequested, returned>>

DYNMEM_malloc(t, bytes, l) ==
    /\ Enter(t)
    /\ MallocBegin(t, bytes, l)

\* newItem = calloc(1, sizeof(DYNMEM_MemoryTable_DataType)) and the
\* metadata written before the lock is taken
MallocItem(t) ==
    /\ At(t, "malloc_item")
    /\ \/ \* calloc fails: free(memory), return NULL
          /\ heapMem' = [heapMem EXCEPT ![frame[t].address] = FALSE]
          /\ Return(t)
          /\ UNCHANGED <<table, heapNode>>
       \/ \E n \in FreeNode :
            /\ heapNode' = [heapNode EXCEPT ![n] = TRUE]
            /\ table' = [table EXCEPT ![n] =
                   [BlankItem EXCEPT !.address = frame[t].address,
                                     !.size = frame[t].bytes]]
            /\ frame' = [frame EXCEPT ![t].pc = "malloc_lock", ![t].item = n]
            /\ UNCHANGED heapMem
    /\ UNCHANGED <<theTotalMemory, initialized, memoryCountMutex,
                   memoryListMutex, memoryListHead, crashed, histVars>>

\* pthread_mutex_lock(&memoryListMutex);
\* newItem->nextElement = *memoryListHead; newItem->previousElement = NULL;
MallocLock(t) ==
    /\ At(t, "malloc_lock")
    /\ ListMutexFree
    /\ memoryListMutex' = t
    /\ table' = [table EXCEPT
           ![frame[t].item].nextElement = memoryListHead[frame[t].list],
           ![frame[t].item].previousElement = NULL]
    /\ frame' = [frame EXCEPT ![t].pc = "malloc_link"]
    /\ UNCHANGED <<theTotalMemory, initialized, memoryCountMutex,
                   memoryListHead, heapVars, crashed, histVars>>

\* if (*memoryListHead != NULL) (*memoryListHead)->previousElement = newItem;
\* *memoryListHead = newItem; pthread_mutex_unlock(&memoryListMutex);
\* and the call DYNMEM_IncreaseMemoryCounter(bytes + sizeof(...))
MallocLink(t) ==
    /\ At(t, "malloc_link")
    /\ LET l == frame[t].list
           newItem == frame[t].item
           head == memoryListHead[l]
           theSize == frame[t].bytes + MetaSize
       IN /\ table' = IF head # NULL
                      THEN [table EXCEPT ![head].previousElement = newItem]
                      ELSE table
          /\ memoryListHead' = [memoryListHead EXCEPT ![l] = newItem]
          /\ frame' = [frame EXCEPT ![t] =
                 CallCounter([@ EXCEPT !.bytes = 0, !.item = NULL],
                             "inc", theSize)]
    /\ memoryListMutex' = NoThread
    /\ UNCHANGED <<theTotalMemory, initialized, memoryCountMutex, heapVars,
                   crashed, histVars>>

\* -------------------------------------------------------- DYNMEM_free --

\* if (f_address == NULL) return; otherwise go on to the lock.  A caller
\* passes NULL or a pointer it was handed earlier (live or stale).
DYNMEM_free(t, f_address, l) ==
    /\ Enter(t)
    /\ f_address \in returned \cup {NULL}
    /\ IF f_address = NULL
       THEN UNCHANGED frame
       ELSE frame' = [frame EXCEPT ![t] =
                [IdleFrame EXCEPT !.pc = "free_lock", !.op = "free",
                                  !.list = l, !.address = f_address]]
    /\ UNCHANGED <<theTotalMemory, initialized, memoryCountMutex,
                   memoryListMutex, listVars, heapVars, crashed, histVars>>

\* pthread_mutex_lock(&memoryListMutex) and the search; when nothing is
\* found: unlock, report_error_q, return
FreeSearch(t) ==
    /\ At(t, "free_lock")
    /\ ListMutexFree
    /\ LET found == Search(memoryListHead[frame[t].list], frame[t].address,
                           NumNodes + 1)
       IN IF found = NULL
          THEN /\ Return(t)
               /\ UNCHANGED memoryListMutex
          ELSE /\ memoryListMutex' = t
               /\ frame' = [frame EXCEPT ![t].pc = "free_unlink",
                                         ![t].item = found,
                                         ![t].address = NULL]
    /\ UNCHANGED <<theTotalMemory, initialized, memoryCountMutex, listVars,
                   heapVars, crashed, histVars>>

\* the three assignments that take found out of the list (lines 220 to 227)
Unlink(tbl, found) ==
    LET prev == tbl[found].previousElement
        next == tbl[found].nextElement
        t1 == IF prev # NULL
              THEN [tbl EXCEPT ![prev].nextElement = next]
              ELSE tbl
    IN IF next # NULL
       THEN [t1 EXCEPT ![next].previousElement = prev]
       ELSE t1

\* if (found == *memoryListHead) *memoryListHead = found->nextElement;
HeadAfterUnlink(head, found, next) == IF found = head THEN next ELSE head

\* unlink, pthread_mutex_unlock, and the call
\* DYNMEM_DecreaseMemoryCounter(found->size + sizeof(...))
FreeUnlink(t) ==
    /\ At(t, "free_unlink")
    /\ LET l == frame[t].list
           found == frame[t].item
           theSize == table[found].size + MetaSize
       IN /\ table' = Unlink(table, found)
          /\ memoryListHead' = [memoryListHead EXCEPT ![l] =
                 HeadAfterUnlink(@, found, table[found].nextElement)]
          /\ frame' = [frame EXCEPT ![t] =
                 CallCounter([@ EXCEPT !.list = "none"], "dec", theSize)]
    /\ memoryListMutex' = NoThread
    /\ UNCHANGED <<theTotalMemory, initialized, memoryCountMutex, heapVars,
                   crashed, histVars>>

\* free(found->address); free(found);
FreeRelease(t) ==
    /\ At(t, "free_release")
    /\ LET found == frame[t].item
           a == table[found].address
           defined == heapNode[found] /\ heapMem[a]
       IN \/ /\ heapMem' = [heapMem EXCEPT ![a] = FALSE]
             /\ heapNode' = [heapNode EXCEPT ![found] = FALSE]
             /\ table' = [table EXCEPT ![found] = BlankItem]
             /\ Return(t)
             /\ UNCHANGED <<theTotalMemory, initialized, memoryCountMutex,
                            memoryListMutex, memoryListHead, crashed,
                            histVars>>
          \/ /\ ~defined
             /\ Crash

\* ----------------------------------------------------- DYNMEM_realloc --

\* if (theMemoryAddress == NULL) return DYNMEM_malloc(bytes, head, "Realloc")
DYNMEM_realloc(t, theMemoryAddress, bytes, l) ==
    /\ Enter(t)
    /\ theMemoryAddress \in returned \cup {NULL}
    /\ IF theMemoryAddress = NULL
       THEN MallocBegin(t, bytes, l)
       ELSE /\ frame' = [frame EXCEPT ![t] =
                   [IdleFrame EXCEPT !.pc = "realloc_lock", !.op = "realloc",
                                     !.list = l, !.bytes = bytes,
                                     !.address = theMemoryAddress]]
            /\ UNCHANGED <<theTotalMemory, initialized, memoryCountMutex,
                           memoryListMutex, listVars, heapVars, crashed,
                           histVars>>

\* pthread_mutex_lock(&memoryListMutex) and the search; when nothing is
\* found: unlock, report_error_q, return NULL
ReallocSearch(t) ==
    /\ At(t, "realloc_lock")
    /\ ListMutexFree
    /\ LET found == Search(memoryListHead[frame[t].list], frame[t].address,
                           NumNodes + 1)
       IN IF found = NULL
          THEN /\ Return(t)
               /\ UNCHANGED memoryListMutex
          ELSE /\ memoryListMutex' = t
               /\ frame' = [frame EXCEPT ![t].pc = "realloc_sys",
                                         ![t].item = found]
    /\ UNCHANGED <<theTotalMemory, initialized, memoryCountMutex, listVars,
                   heapVars, crashed, histVars>>

\* a realloc that counts every change of size as growth
ReallocDirAlwaysInc(bytes, oldSize) == "inc"
\* the counter call that follows a successful realloc (lines 175 to 178)
ReallocDir(bytes, oldSize) == IF bytes > oldSize THEN "inc" ELSE "dec"
ReallocDelta(bytes, oldSize) ==
    IF bytes > oldSize THEN bytes - oldSize ELSE oldSize - bytes

\* newMemory = realloc(theMemoryAddress, bytes) under the list lock, the
\* update of the record, pthread_mutex_unlock, and the counter call.
\* The C library's realloc either moves or keeps the block (success), or
\* returns NULL leaving the old block allocated; asked for 0 bytes it may
\* instead release the old block and return NULL (glibc does).
ReallocSys(t) ==
    /\ At(t, "realloc_sys")
    /\ LET l == frame[t].list
           found == frame[t].item
           old == frame[t].address
           bytes == frame[t].bytes
           oldSize == table[found].size
       IN \/ \* success: newMemory is the old address or a fresh one
             /\ heapMem[old]
             /\ \E newMemory \in FreeAddr \cup {old} :
                  /\ heapMem' = [[heapMem EXCEPT ![old] = FALSE]
                                          EXCEPT ![newMemory] = TRUE]
                  /\ table' = [table EXCEPT ![found].address = newMemory,
                                            ![found].size = bytes]
                  /\ frame' = [frame EXCEPT ![t] =
                         CallCounter([@ EXCEPT !.address = newMemory,
                                               !.bytes = 0, !.item = NULL],
                                     ReallocDir(bytes, oldSize),
                                     ReallocDelta(bytes, oldSize))]
             /\ memoryListMutex' = NoThread
             /\ UNCHANGED <<theTotalMemory, initialized, memoryCountMutex,
                            memoryListHead, heapNode, crashed, histVars>>
          \/ \* failure: NULL, the old block is untouched
             /\ heapMem[old]
             /\ memoryListMutex' = NoThread
             /\ Return(t)
             /\ UNCHANGED <<theTotalMemory, initialized, memoryCountMutex,
                            listVars, heapVars, crashed, histVars>>
          \/ \* realloc(p, 0): NULL, and the old block has been released
             /\ heapMem[old]
             /\ bytes = 0
             /\ heapMem' = [heapMem EXCEPT ![old] = FALSE]
             /\ memoryListMutex' = NoThread
             /\ Return(t)
             /\ UNCHANGED <<theTotalMemory, initialized, memoryCountMutex,
                            listVars, heapNode, crashed, histVars>>
          \/ \* realloc of a released address: undefined
             /\ ~heapMem[old]
             /\ Crash
          \/ /\ ~heapMem[old]
             /\ memoryListMutex' = NoThread
             /\ Return(t)
             /\ UNCHANGED <<theTotalMemory, initialized, memoryCountMutex,
                            listVars, heapVars, crashed, histVars>>

\* ----------------------------------------------------- DYNMEM_freeAll --

DYNMEM_freeAll(t, l) ==
    /\ Enter(t)
    /\ frame' = [frame EXCEPT ![t] =
           [IdleFrame EXCEPT !.pc = "freeall_lock", !.op = "freeAll",
                             !.list = l]]
    /\ UNCHANGED <<theTotalMemory, initialized, memoryCountMutex,
                   memoryListMutex, listVars, heapVars, crashed, histVars>>

\* pthread_mutex_lock(&memoryListMutex); current = *memoryListHead;
FreeAllLock(t) ==
    /\ At(t, "freeall_lock")
    /\ ListMutexFree
    /\ memoryListMutex' = t
    /\ frame' = [frame EXCEPT ![t].pc = "freeall_loop",
                              ![t].item = memoryListHead[frame[t].list]]
    /\ UNCHANGED <<theTotalMemory, initialized, memoryCountMutex, listVars,
                   heapVars, crashed, histVars>>

\* the while loop of lines 248 to 258 run to its end: what it leaves of the
\* heap, the sum it computes, and whether it released something that was
\* not allocated
RECURSIVE FreeAllLoop(_, _, _, _, _, _)
FreeAllLoop(current, mem, nodes, total, undef, fuel) ==
    IF current = NULL
    THEN [mem |-> mem, nodes |-> nodes, total |-> total, undef |-> undef]
    ELSE IF fuel = 0 \/ ~nodes[current]
    THEN [mem |-> mem, nodes |-> nodes, total |-> total, undef |-> TRUE]
    ELSE LET a == table[current].address
         IN FreeAllLoop(table[current].nextElement,
                        [mem EXCEPT ![a] = FALSE],
                        [nodes EXCEPT ![current] = FALSE],
                        Wrap(total + table[current].size + MetaSize),
                        undef \/ ~mem[a],
                        fuel - 1)


\* the loop, *memoryListHead = NULL, pthread_mutex_unlock, and
\* if (totalSizeRemoved > 0) DYNMEM_DecreaseMemoryCounter(totalSizeRemoved)
FreeAllRelease(t) ==
    /\ At(t, "freeall_loop")
    /\ LET l == frame[t].list
           r == FreeAllLoop(frame[t].item, heapMem, heapNode, 0, FALSE,
                            NumNodes + 1)
       IN \/ /\ heapMem' = r.mem
             /\ heapNode' = r.nodes
             /\ table' = [n \in Node |->
                    IF r.nodes[n] THEN table[n] ELSE BlankItem]
             /\ memoryListHead' = [memoryListHead EXCEPT ![l] =
                    NULL]
             /\ memoryListMutex' = NoThread
             /\ IF r.total > 0
                THEN frame' = [frame EXCEPT ![t] =
                            CallCounter([@ EXCEPT !.list = "none",
                                                  !.item = NULL],
                                        "dec", r.total)]
                ELSE Return(t)
             /\ UNCHANGED <<theTotalMemory, initialized, memoryCountMutex,
                            crashed, histVars>>
          \/ /\ r.undef
             /\ Crash

\* -------------------------------------------------------- DYNMEM_dump --

\* the caller passes *its* head pointer by value
DYNMEM_dump(t, l) ==
    /\ Enter(t)
    /\ frame' = [frame EXCEPT ![t] =
           [IdleFrame EXCEPT !.pc = "dump_lock", !.op = "dump",
                             !.item = memoryListHead[l]]]
    /\ UNCHANGED <<theTotalMemory, initialized, memoryCountMutex,
                   memoryListMutex, listVars, heapVars, crashed, histVars>>

\* pthread_mutex_lock(&memoryListMutex); current = memoryListHead;
DumpLock(t) ==
    /\ At(t, "dump_lock")
    /\ ListMutexFree
    /\ memoryListMutex' = t
    /\ frame' = [frame EXCEPT ![t].pc = "dump_loop"]
    /\ UNCHANGED <<theTotalMemory, initialized, memoryCountMutex, listVars,
                   heapVars, crashed, histVars>>

\* one turn of the for loop: print current, current = current->nextElement;
\* at NULL: pthread_mutex_unlock.  A released record reads as anything.
DumpVisit(t) ==
    /\ At(t, "dump_loop")
    /\ LET current == frame[t].item
       IN \/ /\ current = NULL
             /\ memoryListMutex' = NoThread
             /\ frame' = [frame EXCEPT ![t].pc = "dump_total"]
             /\ UNCHANGED crashed
          \/ /\ current # NULL
             /\ heapNode[current]
             /\ frame' = [frame EXCEPT ![t].item =
                              table[current].nextElement]
             /\ UNCHANGED <<memoryListMutex, crashed>>
          \/ /\ current # NULL
             /\ ~heapNode[current]
             /\ \E next \in Node \cup {NULL} :
                    frame' = [frame EXCEPT ![t].item = next]
             /\ UNCHANGED <<memoryListMutex, crashed>>
          \/ /\ current # NULL
             /\ ~heapNode[current]
             /\ crashed' = TRUE
             /\ UNCHANGED <<memoryListMutex, frame>>
    /\ UNCHANGED <<theTotalMemory, initialized, memoryCountMutex, listVars,
                   heapVars, histVars>>

\* DYNMEM_GetTotalMemory(): lock, read, unlock; then return
DumpTotal(t) ==
    /\ At(t, "dump_total")
    /\ CountMutexFree
    /\ Return(t)
    /\ UNCHANGED <<theTotalMemory, initialized, memoryCountMutex,
                   memoryListMutex, listVars, heapVars, crashed, histVars>>

\* ------------------------------------- direct calls of the counter ----

\* DYNMEM_IncreaseMemoryCounter(theSize) called from outside the module
DYNMEM_IncreaseMemoryCounter(t, theSize) ==
    /\ Enter(t)
    /\ frame' = [frame EXCEPT ![t] =
           CallCounter([IdleFrame EXCEPT !.op = "counter"], "inc", theSize)]
    /\ netRequested' = Wrap(netRequested + theSize)
    /\ UNCHANGED <<theTotalMemory, initialized, memoryCountMutex,
                   memoryListMutex, listVars, heapVars, crashed, allocSeen,
                   lateInit, returned>>

\* DYNMEM_DecreaseMemoryCounter(theSize) called from outside the module
DYNMEM_DecreaseMemoryCounter(t, theSize) ==
    /\ Enter(t)
    /\ frame' = [frame EXCEPT ![t] =
           CallCounter([IdleFrame EXCEPT !.op = "counter"], "dec", theSize)]
    /\ netRequested' = Wrap(netRequested - theSize)
    /\ UNCHANGED <<theTotalMemory, initialized, memoryCountMutex,
                   memoryListMutex, listVars, heapVars, crashed, allocSeen,
                   lateInit, returned>>

\* ------------------------------------------------ the specifications --

Next ==
    \E t \in Threads :
        \/ DYNMEM_Init(t)
        \/ \E bytes \in Sizes, l \in Lists : DYNMEM_malloc(t, bytes, l)
        \/ MallocItem(t)
        \/ MallocLock(t)
        \/ MallocLink(t)
        \/ \E a \in Addr \cup {NULL}, bytes \in Sizes, l \in Lists :
               DYNMEM_realloc(t, a, bytes, l)
        \/ ReallocSearch(t)
        \/ ReallocSys(t)
        \/ \E a \in Addr \cup {NULL}, l \in Lists : DYNMEM_free(t, a, l)
        \/ FreeSearch(t)
        \/ FreeUnlink(t)
        \/ FreeRelease(t)
        \/ \E l \in Lists : DYNMEM_freeAll(t, l)
        \/ FreeAllLock(t)
        \/ FreeAllRelease(t)
        \/ \E l \in Lists : DYNMEM_dump(t, l)
        \/ DumpLock(t)
        \/ DumpVisit(t)
        \/ DumpTotal(t)
        \/ CounterLock(t)
        \/ CounterStore(t)
        \/ CounterRet(t)

\* the steps that continue a call already entered
Continue(t) ==
    \/ MallocItem(t) \/ MallocLock(t) \/ MallocLink(t)
    \/ ReallocSearch(t) \/ ReallocSys(t)
    \/ FreeSearch(t) \/ FreeUnlink(t) \/ FreeRelease(t)
    \/ FreeAllLock(t) \/ FreeAllRelease(t)
    \/ DumpLock(t) \/ DumpVisit(t) \/ DumpTotal(t)
    \/ CounterLock(t) \/ CounterStore(t) \/ CounterRet(t)

\* threads calling the tracked-allocation functions, in short runs
Spec == Init /\ [][Next]_vars

\* the same in runs of two calls more
DeepSpec == DeepInit /\ [][Next]_vars

\* the same under fair scheduling: a thread inside a call that can take a
\* step again and again does take one (a mutex is handed to each waiter)
FairSpec ==
    FairInit /\ [][Next]_vars /\ \A t \in Threads : SF_vars(Continue(t))

\* threads calling only the two counter functions
CounterNext ==
    \E t \in Threads :
        \/ \E theSize \in Sizes : DYNMEM_IncreaseMemoryCounter(t, theSize)
        \/ \E theSize \in Sizes : DYNMEM_DecreaseMemoryCounter(t, theSize)
        \/ CounterLock(t)
        \/ CounterStore(t)
        \/ CounterRet(t)

CounterSpec == DeepInit /\ [][CounterNext]_vars

\* ----------------------------------------------------- the properties --

Quiescent == \A t \in Threads : frame[t].pc = "idle"

RECURSIVE SumSizes(_)
SumSizes(chain) ==
    IF chain = <<>> THEN 0
    ELSE table[Head(chain)].size + MetaSize + SumSizes(Tail(chain))

RECURSIVE SumLists(_)
SumLists(ls) ==
    IF ls = {} THEN 0
    ELSE LET l == CHOOSE x \in ls : TRUE
         IN SumSizes(ChainOf(l)) + SumLists(ls \ {l})

\* what DYNMEM_dump would add up over every list
TrackedBytes == SumLists(Lists)

\* C2: when DYNMEM_Init did not first run after an allocation and no call is
\* in progress, theTotalMemory is the sum of size + sizeof(record) over the
\* blocks tracked in all lists (in unsigned long long arithmetic).
C2_CounterReportsUsage ==
    (Quiescent /\ ~lateInit) => theTotalMemory = Wrap(TrackedBytes)

\* reached: DYNMEM_Init ran first, every call has returned, and a block of
\* MaxBytes bytes is tracked
C2_Witness ==
    /\ Quiescent
    /\ initialized /\ ~lateInit
    /\ TrackedBytes = MetaSize + MaxBytes
    /\ theTotalMemory = MetaSize + MaxBytes

\* C3: under any interleaving of counter calls no update is lost (with
\* every call returned the counter is the sum of the deltas asked for,
\* modulo the width) and a call returns the value its own update stored.
C3_CounterAtomic ==
    /\ Quiescent => theTotalMemory = netRequested
    /\ \A t \in Threads :
           frame[t].pc = "count_ret" => theTotalMemory = frame[t].tmp

\* reached: one thread is about to return a wrapped-around value that its
\* own decrease stored while the other waits for memoryCountMutex
C3_Witness ==
    \E t, u \in Threads :
        /\ frame[t].pc = "count_ret" /\ frame[t].dir = "dec"
        /\ frame[t].tmp > CounterModulus - MaxBytes - 1
        /\ theTotalMemory = frame[t].tmp
        /\ frame[u].pc = "count_lock"

\* a record of list l holds address a
TrackedIn(a, l) == \E n \in NodesOf(l) : table[n].address = a

OthersIdle(t) == \A u \in Threads \ {t} : frame[u].pc = "idle"

\* what the loop of DYNMEM_freeAll(t) is about to do
LoopOf(t) == FreeAllLoop(frame[t].item, heapMem, heapNode, 0, FALSE,
                         NumNodes + 1)

\* C1: a DYNMEM_freeAll that runs while no other call is in progress
\* releases the payload and the record of every tracked block exactly once
\* (each is allocated when the loop reaches it) and leaves the head NULL
\* with none of them allocated.
C1_FreeOnDisconnect ==
    [][\A t \in Threads :
         (frame[t].pc = "freeall_loop" /\ frame'[t].pc # "freeall_loop"
          /\ OthersIdle(t))
         => /\ ~LoopOf(t).undef
            /\ ~crashed'
            /\ memoryListHead'[frame[t].list] = NULL
            /\ \A n \in NodesOf(frame[t].list) :
                   ~heapNode'[n] /\ ~heapMem'[table[n].address]]_vars

\* C6: nothing is released twice: whenever a thread is about to hand an
\* address or a record to free() or realloc(), it is allocated, and no two
\* threads are about to release the same record or address.
C6_NoDoubleRelease ==
    /\ \A t \in Threads :
         /\ frame[t].pc = "free_release"
            => heapNode[frame[t].item] /\ heapMem[table[frame[t].item].address]
         /\ frame[t].pc = "freeall_loop" => ~LoopOf(t).undef
         /\ frame[t].pc = "realloc_sys" => heapMem[frame[t].address]
    /\ \A t, u \in Threads :
         (t # u /\ frame[t].pc = "free_release" /\ frame[u].pc = "free_release")
         => /\ frame[t].item # frame[u].item
            /\ table[frame[t].item].address # table[frame[u].item].address

\* C7: at the moment DYNMEM_malloc or DYNMEM_realloc returns a pointer
\* (the return follows the counter update), the pointer is the address of
\* a record of the list and is allocated.
C7_ReturnedPointerLive ==
    \A t \in Threads :
        (frame[t].pc = "count_ret" /\ frame[t].op \in {"malloc", "realloc"})
        => TrackedIn(frame[t].address, frame[t].list)
           /\ heapMem[frame[t].address]

\* C8: no DYNMEM_DecreaseMemoryCounter subtracts more than the counter
\* holds (DYNMEM_Init not having reset it late).
C8_NoUnderflow ==
    \A t \in Threads :
        (~lateInit /\ frame[t].pc = "count_store" /\ frame[t].dir = "dec")
        => frame[t].theSize <= frame[t].tmp

\* C9: every record DYNMEM_dump visits is allocated and is in a list when
\* it is visited, and no step of DYNMEM_dump changes a list or the counter.
C9_DumpSeesLiveRecords ==
    /\ [](\A t \in Threads :
            (frame[t].pc = "dump_loop" /\ frame[t].item # NULL)
            => /\ heapNode[frame[t].item]
               /\ \E l \in Lists : frame[t].item \in NodesOf(l))
    /\ [][\A t \in Threads :
            (frame[t].op = "dump" /\ frame'[t] # frame[t])
            => UNCHANGED <<listVars, heapVars, theTotalMemory>>]_vars

\* the records of a list with what they hold, in order
ListContents(l) ==
    [i \in 1..Len(ChainOf(l)) |->
        <<ChainOf(l)[i], table[ChainOf(l)[i]].address,
          table[ChainOf(l)[i]].size>>]

Moved(t) == frame'[t] # frame[t]

\* C4: (a) a list changes only in a step of a thread that was called with
\* its head; (b) the loop of DYNMEM_freeAll(A) releases no record of another
\* list B and no payload whose address a record of B holds; (c) the search
\* of DYNMEM_free or DYNMEM_realloc with head A for an address that only
\* another list holds finds nothing: the call returns and the lists, the
\* heap and the counter are as before.
C4_ListsIsolated ==
    [][/\ \A b \in Lists :
            ListContents(b)' # ListContents(b)
            => \E t \in Threads : Moved(t) /\ b \in {frame[t].list, frame'[t].list}
       /\ \A t \in Threads, b \in Lists :
            (frame[t].pc = "freeall_loop" /\ Moved(t) /\ b # frame[t].list)
            => \A n \in NodesOf(b) :
                   /\ heapNode'[n] = heapNode[n]
                   /\ heapMem'[table[n].address] = heapMem[table[n].address]
       /\ \A t \in Threads :
            (/\ frame[t].pc \in {"free_lock", "realloc_lock"}
             /\ Moved(t)
             /\ ~TrackedIn(frame[t].address, frame[t].list)
             /\ \E b \in Lists : TrackedIn(frame[t].address, b))
            => /\ frame'[t] = IdleFrame
               /\ UNCHANGED <<listVars, heapVars, theTotalMemory>>]_vars

\* the positions of every record, as <<list, index>>
Positions == {<<l, i>> : l \in Lists, i \in 1..(NumNodes + 1)}
Tracked == {p \in Positions : p[2] <= Len(ChainOf(p[1]))}
RecordAt(p) == ChainOf(p[1])[p[2]]

WellFormed(l) ==
    LET c == ChainOf(l)
    IN /\ \A i, j \in 1..Len(c) : i # j => c[i] # c[j]
       /\ c # <<>> => table[c[1]].previousElement = NULL
       /\ \A i \in 1..(Len(c) - 1) : table[c[i + 1]].previousElement = c[i]

\* C5: whenever memoryListMutex is not held, every list is an acyclic
\* doubly-linked chain (head with previousElement NULL, each successor
\* pointing back at its predecessor) and no address is held by two records.
C5_ListsWellFormed ==
    memoryListMutex = NoThread
    => /\ \A l \in Lists : WellFormed(l)
       /\ \A p, q \in Tracked :
              p # q => table[RecordAt(p)].address # table[RecordAt(q)].address

=============================================================================
